---- MODULE Spec2Model ----
(***************************************************************************)
(* Model of merkle-tree-lib: tree/MerkleTree (carry-forward Merkle tree    *)
(* with incremental leaf update), proof/MerkleProof and                    *)
(* proof/MerkleProofVerifier, over the pluggable hash strategies.          *)
(*                                                                         *)
(* SHA-256 is modelled symbolically and collision-free: the digest of a    *)
(* message is a term that records the message.  Byte strings are sequences *)
(* of symbols; one symbol stands either for the bytes of a piece of text   *)
(* or for the 32 bytes of a digest.  Buffers are objects: the tree and the *)
(* proofs hold references into `heap`; Buffers nobody references are       *)
(* collected and the references renumbered, so that the state is the       *)
(* object graph and not its allocation history.                            *)
(***************************************************************************)
EXTENDS Integers, Sequences, FiniteSets, TLC

\* ------------------------------------------------------------------ bounds
MaxLeaves == 3

\* ----------------------------------------------------- symbols and buffers
\* A character of a JavaScript string.
Chr(x) == [k |-> "c", v |-> x, msg |-> <<>>]
\* The UTF-8 bytes of a character, kept as one symbol.
Byte(x) == [k |-> "b", v |-> x, msg |-> <<>>]
\* The 32 bytes of SHA-256(m), kept as one symbol.
Digest(m) == [k |-> "h", v |-> "sha256", msg |-> m]
\* A string made of one named character.
Text(x) == << Chr(x) >>

\* typeof data === 'string'
IsString(data) == \A i \in DOMAIN data : data[i].k = "c"

\* Buffer.from(data, 'utf8')
utf8(s) == [i \in DOMAIN s |-> Byte(s[i].v)]

\* typeof data === 'string' ? Buffer.from(data, 'utf8') : data
toBuffer(data) == IF IsString(data) THEN utf8(data) ELSE data

\* createHash('sha256').update(m).digest()
sha256(m) == << Digest(m) >>

\* ---------------------------------------------------------- hash strategies
Sha256Strategy == [type |-> "sha256", tag |-> <<>>]
TaggedSha256Strategy(tag) == [type |-> "tagged-sha256", tag |-> tag]

\* TaggedSha256Strategy constructor: tagHash = SHA256(utf8(tag))
tagHash(tag) == sha256(utf8(tag))

\* hash without the update() call that feeds the message: the digest depends
\* on the tag alone.
hash_nomsg(strategy, data) ==
    IF strategy.type = "tagged-sha256"
    THEN sha256(tagHash(strategy.tag) \o tagHash(strategy.tag))
    ELSE sha256(<<>>)

\* HashStrategy.hash for both strategy implementations
hash(strategy, data) ==
    IF strategy.type = "tagged-sha256"
    THEN sha256(tagHash(strategy.tag) \o tagHash(strategy.tag) \o toBuffer(data))
    ELSE sha256(toBuffer(data))

DEFAULT_TAGS_LEAF == Text("Bitcoin_Transaction")
DEFAULT_TAGS_BRANCH == Text("Bitcoin_Transaction")

\* The default strategy pair of the MerkleTree and MerkleProofVerifier
\* constructors.
DefaultPair ==
    << TaggedSha256Strategy(DEFAULT_TAGS_LEAF), TaggedSha256Strategy(DEFAULT_TAGS_BRANCH) >>

\* Plain SHA-256 for leaves and branches.
PlainPair == << Sha256Strategy, Sha256Strategy >>

\* Strategy pairs callers construct trees with: the defaults, and distinct
\* leaf and branch tags.
StrategyPairs ==
    { DefaultPair,
      << TaggedSha256Strategy(Text("BALANCE_LEAF")), TaggedSha256Strategy(Text("BALANCE_BRANCH")) >> }

\* Leaf data used by callers.
Data == { Text("a"), Text("b") }

\* ProofDirection
LEFT == 0
RIGHT == 1

\* ------------------------------------------------------------------- state
VARIABLES
    leaves,             \* MerkleTree.leaves: the leaf data
    leafHashes,         \* MerkleTree.leafHashes: references to leaf digests
    levels,             \* MerkleTree.levels: references, leaves to root
    leafHashStrategy,   \* MerkleTree.leafHashStrategy
    branchHashStrategy, \* MerkleTree.branchHashStrategy
    heap,               \* the Buffer objects: reference -> bytes
    held,               \* the MerkleProof the caller holds (none: <<>>), with
                        \* what it returned at issue time and the number of
                        \* data-changing updates since (2: two or more)
    updated,            \* an updateLeaf call has returned
    last,               \* the last operation and what it returned
    legacy,             \* the instance of the MerkleTree of src/merkleTree.ts
    running             \* the updateLeaf call whose writes are under way

vars == << leaves, leafHashes, levels, leafHashStrategy, branchHashStrategy,
           heap, held, updated, last, legacy, running >>

\* ---------------------------------------------------------------- buildTree
\* nextLevel without the branch that propagates the unpaired last node.
nextLevel_dropCarry(h, branch, currentLevel) ==
    LET n == Len(currentLevel)
        pairs == n \div 2
        parents == [p \in 1..pairs |->
                      hash(branch, h[currentLevel[2 * p - 1]] \o h[currentLevel[2 * p]])]
    IN  [heap |-> h \o parents,
         level |-> [p \in 1..pairs |-> Len(h) + p]]

\* nextLevel pairing the unpaired last node with itself.
nextLevel_duplicate(h, branch, currentLevel) ==
    LET n == Len(currentLevel)
        pairs == (n \div 2) + (n % 2)
        parents == [p \in 1..pairs |->
                      hash(branch, h[currentLevel[2 * p - 1]]
                                   \o h[currentLevel[IF 2 * p <= n THEN 2 * p ELSE n]])]
    IN  [heap |-> h \o parents,
         level |-> [p \in 1..pairs |-> Len(h) + p]]

\* One pass of the for loop of buildTree over currentLevel: a new Buffer for
\* every complete pair, the reference of the unpaired last node carried up.
nextLevel(h, branch, currentLevel) ==
    LET n == Len(currentLevel)
        pairs == n \div 2
        parents == [p \in 1..pairs |->
                      hash(branch, h[currentLevel[2 * p - 1]] \o h[currentLevel[2 * p]])]
    IN  [heap |-> h \o parents,
         level |-> [p \in 1..(pairs + (n % 2)) |->
                      IF 2 * p <= n THEN Len(h) + p ELSE currentLevel[2 * p - 1]]]

RECURSIVE buildLoop(_, _, _)
\* The while loop of buildTree.
buildLoop(h, branch, lvls) ==
    IF Len(lvls[Len(lvls)]) > 1
    THEN LET nl == nextLevel(h, branch, lvls[Len(lvls)])
         IN  buildLoop(nl.heap, branch, Append(lvls, nl.level))
    ELSE [heap |-> h, levels |-> lvls]

buildTree(h, branch, hashes) == buildLoop(h, branch, << hashes >>)

\* The constructor hashing the leaves with the branch strategy.
construct_branchLeaf(data, leafStrategy, branchStrategy) ==
    LET h0 == [i \in 1..Len(data) |-> hash(branchStrategy, data[i])]
        lh == [i \in 1..Len(data) |-> i]
        bt == buildTree(h0, branchStrategy, lh)
    IN  [leaves |-> data, leafHashes |-> lh, levels |-> bt.levels, heap |-> bt.heap]

\* The MerkleTree constructor for non-empty data, on an empty heap.
construct(data, leafStrategy, branchStrategy) ==
    LET h0 == [i \in 1..Len(data) |-> hash(leafStrategy, data[i])]
        lh == [i \in 1..Len(data) |-> i]
        bt == buildTree(h0, branchStrategy, lh)
    IN  [leaves |-> data, leafHashes |-> lh, levels |-> bt.levels, heap |-> bt.heap]

\* ------------------------------------------------------------------ queries
\* getRoot(): the reference held by the only slot of the last level
getRoot(lvls) == lvls[Len(lvls)][1]

\* ---------------------------------------------------------------------- hex
\* The two hex digits of a byte symbol.
HexDigit(half, u) == [k |-> "x", v |-> half, msg |-> << u >>]

RECURSIVE toHex(_)
\* Buffer.toString('hex')
toHex(buf) ==
    IF buf = <<>> THEN <<>>
    ELSE << HexDigit("hi", buf[1]), HexDigit("lo", buf[1]) >> \o toHex(Tail(buf))

IsHexPair(a, b) ==
    /\ a.k = "x" /\ b.k = "x"
    /\ a.v = "hi" /\ b.v = "lo"
    /\ a.msg = b.msg

RECURSIVE fromHex(_)
\* Buffer.from(s, 'hex'): decodes pairs of digits and stops at the first pair
\* that is not valid hex (or at a trailing single digit).
fromHex(s) ==
    IF Len(s) < 2 THEN <<>>
    ELSE IF IsHexPair(s[1], s[2])
         THEN << s[1].msg[1] >> \o fromHex(SubSeq(s, 3, Len(s)))
         ELSE <<>>

getRootHex(h, lvls) == toHex(h[getRoot(lvls)])

exportTree(h, lvls) ==
    [l \in DOMAIN lvls |-> [p \in DOMAIN lvls[l] |-> toHex(h[lvls[l][p]])]]

\* ------------------------------------------------------------ generateProof
RECURSIVE proofLoop_swapped(_, _, _)
\* proofLoop with the two directions exchanged.
proofLoop_swapped(lvls, level, currentIndex) ==
    IF level < Len(lvls) - 1
    THEN LET levelNodes == lvls[level + 1]
             isRightNode == currentIndex % 2 = 1
             siblingIndex == IF isRightNode THEN currentIndex - 1 ELSE currentIndex + 1
             here == IF siblingIndex < Len(levelNodes)
                     THEN << [siblingHash |-> levelNodes[siblingIndex + 1],
                              direction |-> IF isRightNode THEN RIGHT ELSE LEFT] >>
                     ELSE <<>>
         IN  here \o proofLoop_swapped(lvls, level + 1, currentIndex \div 2)
    ELSE <<>>

RECURSIVE proofLoop_selfSibling(_, _, _)
\* proofLoop emitting the unpaired node itself where it has no sibling.
proofLoop_selfSibling(lvls, level, currentIndex) ==
    IF level < Len(lvls) - 1
    THEN LET levelNodes == lvls[level + 1]
             isRightNode == currentIndex % 2 = 1
             siblingIndex == IF isRightNode THEN currentIndex - 1 ELSE currentIndex + 1
             here == << [siblingHash |-> levelNodes[(IF siblingIndex < Len(levelNodes)
                                                     THEN siblingIndex ELSE currentIndex) + 1],
                         direction |-> IF isRightNode THEN LEFT ELSE RIGHT] >>
         IN  here \o proofLoop_selfSibling(lvls, level + 1, currentIndex \div 2)
    ELSE <<>>

RECURSIVE proofLoop(_, _, _)
\* The for loop of generateProof from `level` on, 0-based.
proofLoop(lvls, level, currentIndex) ==
    IF level < Len(lvls) - 1
    THEN LET levelNodes == lvls[level + 1]
             isRightNode == currentIndex % 2 = 1
             siblingIndex == IF isRightNode THEN currentIndex - 1 ELSE currentIndex + 1
             here == IF siblingIndex < Len(levelNodes)
                     THEN << [siblingHash |-> levelNodes[siblingIndex + 1],
                              direction |-> IF isRightNode THEN LEFT ELSE RIGHT] >>
                     ELSE <<>>
         IN  here \o proofLoop(lvls, level + 1, currentIndex \div 2)
    ELSE <<>>

\* generateProof(index) for a valid index: a new MerkleProof
generateProof(lvs, lvls, index) ==
    [leafData |-> lvs[index + 1],
     leafIndex |-> index,
     elements |-> proofLoop(lvls, 0, index),
     rootHash |-> getRoot(lvls)]

\* What a MerkleProof's accessors return: the bytes behind its references.
Deref(h, proof) ==
    [leafData |-> proof.leafData,
     leafIndex |-> proof.leafIndex,
     elements |-> [e \in DOMAIN proof.elements |->
                     [siblingHash |-> h[proof.elements[e].siblingHash],
                      direction |-> proof.elements[e].direction]],
     rootHash |-> h[proof.rootHash]]

\* ----------------------------------------------------------------- verifier
\* MerkleProofVerifier.applyProofElement
applyProofElement(branch, currentHash, element) ==
    hash(branch, IF element.direction = LEFT
                 THEN element.siblingHash \o currentHash
                 ELSE currentHash \o element.siblingHash)

RECURSIVE applyAll(_, _, _)
applyAll(branch, currentHash, elements) ==
    IF elements = <<>> THEN currentHash
    ELSE applyAll(branch, applyProofElement(branch, currentHash, elements[1]), Tail(elements))

\* verify accepting a proof only when its index is odd exactly if its first
\* sibling is on the left.
verify_indexBound(vs, proof) ==
    /\ applyAll(vs[2], hash(vs[1], proof.leafData), proof.elements) = proof.rootHash
    /\ proof.elements # <<>> =>
          ((proof.leafIndex % 2 = 1) <=> (proof.elements[1].direction = LEFT))

\* MerkleProofVerifier.verify with the verifier's strategy pair vs
verify(vs, proof) ==
    applyAll(vs[2], hash(vs[1], proof.leafData), proof.elements) = proof.rootHash

\* toApiFormat writing the other direction code.
toApiFormat_flipped(elements) ==
    [e \in DOMAIN elements |->
       << toHex(elements[e].siblingHash), 1 - elements[e].direction >>]

\* MerkleProof.toApiFormat
toApiFormat(elements) ==
    [e \in DOMAIN elements |-> << toHex(elements[e].siblingHash), elements[e].direction >>]

\* MerkleProofVerifier.verifySimple
verifySimple(vs, leafData, proof, merkleRoot) ==
    verify(vs, [leafData |-> leafData,
                leafIndex |-> 0,
                elements |-> [e \in DOMAIN proof |->
                                [siblingHash |-> fromHex(proof[e][1]),
                                 direction |-> proof[e][2]]],
                rootHash |-> fromHex(merkleRoot)])

\* --------------------------------------------------------------- updateLeaf
\* setSlot writing the bytes into the Buffer the slot already references.
setSlot_inPlace(h, lvls, level, pos, bytes) ==
    [heap |-> [h EXCEPT ![lvls[level + 1][pos + 1]] = bytes],
     levels |-> lvls]

\* this.levels[level][pos] = <a new Buffer holding bytes>
setSlot(h, lvls, level, pos, bytes) ==
    [heap |-> Append(h, bytes),
     levels |-> [lvls EXCEPT ![level + 1][pos + 1] = Len(h) + 1]]

RECURSIVE recompute_swapped(_, _, _, _, _)
\* recompute concatenating the pair in the wrong order.
recompute_swapped(h, branch, lvls, level, currentIndex) ==
    IF level < Len(lvls) - 1
    THEN LET parentLevel == level + 1
             parentIndex == currentIndex \div 2
             levelNodes == lvls[level + 1]
             isRightChild == currentIndex % 2 = 1
             siblingIndex == IF isRightChild THEN currentIndex - 1 ELSE currentIndex + 1
             first == levelNodes[(IF isRightChild THEN siblingIndex ELSE currentIndex) + 1]
             second == levelNodes[(IF isRightChild THEN currentIndex ELSE siblingIndex) + 1]
             st == IF siblingIndex >= Len(levelNodes)
                   THEN [heap |-> h,
                         levels |-> [lvls EXCEPT ![parentLevel + 1][parentIndex + 1] =
                                                     levelNodes[currentIndex + 1]]]
                   ELSE setSlot(h, lvls, parentLevel, parentIndex,
                                hash(branch, h[second] \o h[first]))
         IN  recompute_swapped(st.heap, branch, st.levels, level + 1, parentIndex)
    ELSE [heap |-> h, levels |-> lvls]

RECURSIVE recompute_nocarry(_, _, _, _, _)
\* recompute leaving the parent slot alone when the node has no sibling.
recompute_nocarry(h, branch, lvls, level, currentIndex) ==
    IF level < Len(lvls) - 1
    THEN LET parentLevel == level + 1
             parentIndex == currentIndex \div 2
             levelNodes == lvls[level + 1]
             isRightChild == currentIndex % 2 = 1
             siblingIndex == IF isRightChild THEN currentIndex - 1 ELSE currentIndex + 1
             first == levelNodes[(IF isRightChild THEN siblingIndex ELSE currentIndex) + 1]
             second == levelNodes[(IF isRightChild THEN currentIndex ELSE siblingIndex) + 1]
             st == IF siblingIndex >= Len(levelNodes)
                   THEN [heap |-> h, levels |-> lvls]
                   ELSE setSlot(h, lvls, parentLevel, parentIndex,
                                hash(branch, h[first] \o h[second]))
         IN  recompute_nocarry(st.heap, branch, st.levels, level + 1, parentIndex)
    ELSE [heap |-> h, levels |-> lvls]

RECURSIVE recompute(_, _, _, _, _)
\* The for loop of updateLeaf from `level` on, 0-based.
recompute(h, branch, lvls, level, currentIndex) ==
    IF level < Len(lvls) - 1
    THEN LET parentLevel == level + 1
             parentIndex == currentIndex \div 2
             levelNodes == lvls[level + 1]
             isRightChild == currentIndex % 2 = 1
             siblingIndex == IF isRightChild THEN currentIndex - 1 ELSE currentIndex + 1
             first == levelNodes[(IF isRightChild THEN siblingIndex ELSE currentIndex) + 1]
             second == levelNodes[(IF isRightChild THEN currentIndex ELSE siblingIndex) + 1]
             st == IF siblingIndex >= Len(levelNodes)
                   THEN [heap |-> h,
                         levels |-> [lvls EXCEPT ![parentLevel + 1][parentIndex + 1] =
                                                     levelNodes[currentIndex + 1]]]
                   ELSE setSlot(h, lvls, parentLevel, parentIndex,
                                hash(branch, h[first] \o h[second]))
         IN  recompute(st.heap, branch, st.levels, level + 1, parentIndex)
    ELSE [heap |-> h, levels |-> lvls]

\* updateLeaf hashing the new leaf and building all levels anew from the
\* leaf hashes, in new Buffers.
updateLeaf_rebuild(h, leafStrategy, branch, lh, lvls, index, newData) ==
    LET hashes == [j \in DOMAIN lh |->
                     IF j = index + 1 THEN hash(leafStrategy, newData) ELSE h[lh[j]]]
        newlh == [j \in DOMAIN lh |-> Len(h) + j]
        bt == buildTree(h \o hashes, branch, newlh)
    IN  [heap |-> bt.heap, leafHashes |-> newlh, levels |-> bt.levels]

\* updateLeaf without the assignment to leafHashes[index].
updateLeaf_staleLeafHash(h, leafStrategy, branch, lh, lvls, index, newData) ==
    LET s0 == setSlot(h, lvls, 0, index, hash(leafStrategy, newData))
        st == recompute(s0.heap, branch, s0.levels, 0, index)
    IN  [heap |-> st.heap,
         leafHashes |-> lh,
         levels |-> st.levels]

\* updateLeaf without the loop that recomputes the path to the root.
updateLeaf_leafOnly(h, leafStrategy, branch, lh, lvls, index, newData) ==
    LET s0 == setSlot(h, lvls, 0, index, hash(leafStrategy, newData))
    IN  [heap |-> s0.heap,
         leafHashes |-> [lh EXCEPT ![index + 1] = s0.levels[1][index + 1]],
         levels |-> s0.levels]

\* updateLeaf(index, newData) for a valid index: the leaf hash goes into
\* leafHashes and level 0, then the path to the root is recomputed.
updateLeaf(h, leafStrategy, branch, lh, lvls, index, newData) ==
    LET s0 == setSlot(h, lvls, 0, index, hash(leafStrategy, newData))
        st == recompute(s0.heap, branch, s0.levels, 0, index)
    IN  [heap |-> st.heap,
         leafHashes |-> [lh EXCEPT ![index + 1] = s0.levels[1][index + 1]],
         levels |-> st.levels]

\* ------------------------------------------------------- garbage collection
RECURSIVE flatten(_)
flatten(ss) == IF ss = <<>> THEN <<>> ELSE ss[1] \o flatten(Tail(ss))

RECURSIVE distinct(_, _)
\* The elements of s in order of first occurrence, after those of seen.
distinct(s, seen) ==
    IF s = <<>> THEN seen
    ELSE distinct(Tail(s), IF \E i \in DOMAIN seen : seen[i] = s[1]
                           THEN seen ELSE Append(seen, s[1]))

\* The references a MerkleProof holds.
proofRefs(proof) ==
    [e \in DOMAIN proof.elements |-> proof.elements[e].siblingHash] \o << proof.rootHash >>

\* The Buffers reachable from the tree and the held proofs, renumbered in the
\* order the tree and then the proofs mention them; all others are dropped.
collect(h, lh, lvls, prfs) ==
    LET order == distinct(lh \o flatten(lvls)
                          \o flatten([i \in DOMAIN prfs |-> proofRefs(prfs[i].proof)]), <<>>)
        new == [a \in DOMAIN h |->
                  IF \E i \in DOMAIN order : order[i] = a
                  THEN CHOOSE i \in DOMAIN order : order[i] = a
                  ELSE 0]
    IN  [heap |-> [i \in DOMAIN order |-> h[order[i]]],
         leafHashes |-> [i \in DOMAIN lh |-> new[lh[i]]],
         levels |-> [l \in DOMAIN lvls |-> [p \in DOMAIN lvls[l] |-> new[lvls[l][p]]]],
         held |-> [i \in DOMAIN prfs |->
                     [prfs[i] EXCEPT
                        !.proof.elements =
                            [e \in DOMAIN @ |-> [@[e] EXCEPT !.siblingHash = new[@]]],
                        !.proof.rootHash = new[@]]]]

\* -------------------------------------------------------------------- Init
\* No instance of the MerkleTree of src/merkleTree.ts was constructed.
NoLegacy == [leafHashes |-> <<>>, levels |-> <<>>, root |-> <<>>, built |-> FALSE]

\* No updateLeaf call is under way.
NoCall == [pc |-> "idle", index |-> 0, level |-> 0, currentIndex |-> 0,
           newData |-> << >>]

LeafSeqs == UNION { [1..n -> Data] : n \in 1..MaxLeaves }

Init ==
    \E data \in LeafSeqs, sp \in StrategyPairs :
        LET t == construct(data, sp[1], sp[2])
        IN  /\ leaves = t.leaves
            /\ leafHashes = t.leafHashes
            /\ levels = t.levels
            /\ heap = t.heap
            /\ leafHashStrategy = sp[1]
            /\ branchHashStrategy = sp[2]
            /\ held = <<>>
            /\ updated = FALSE
            /\ last = [op |-> "constructor"]
            /\ legacy = NoLegacy
            /\ running = NoCall

\* ----------------------------------------------------------------- actions
TreePair == << leafHashStrategy, branchHashStrategy >>

\* The strategy pairs a verifier is constructed with: those of the tree, the
\* constructor defaults, or plain SHA-256.
VerifierPairs == { TreePair, DefaultPair, PlainPair }

Matching(vs) == vs = TreePair

\* A verification ends a scenario: the verifier never touches the tree, so
\* the tree states of longer scenarios are those reached without it.
TreeOps == { "constructor", "generateProof", "updateLeaf" }

\* tree.generateProof(index) with a valid index; the caller keeps the proof
\* in place of the one held before.
GenerateProof(index) ==
    /\ last.op \in TreeOps
    /\ index >= 0 /\ index < Len(leaves)
    /\ \E p \in { generateProof(leaves, levels, index) } :
       \E gc \in { collect(heap, leafHashes, levels,
                            << [proof |-> p, issued |-> Deref(heap, p), changes |-> 0] >>) } :
           /\ held' = gc.held
           /\ heap' = gc.heap
           /\ leafHashes' = gc.leafHashes
           /\ levels' = gc.levels
    /\ last' = [op |-> "generateProof", index |-> index]
    /\ UNCHANGED << leaves, leafHashStrategy, branchHashStrategy, updated, legacy, running >>

\* tree.updateLeaf(index, newData) with a valid index
UpdateLeaf(index, newData) ==
    /\ last.op \in TreeOps
    /\ index >= 0 /\ index < Len(leaves)
    /\ \E st \in { updateLeaf(heap, leafHashStrategy, branchHashStrategy,
                                leafHashes, levels, index, newData) } :
       \E gc \in { collect(st.heap, st.leafHashes, st.levels,
                            [i \in DOMAIN held |->
                               [held[i] EXCEPT !.changes =
                                  IF newData # leaves[index + 1] /\ @ < 2 THEN @ + 1 ELSE @]]) } :
           /\ leaves' = [leaves EXCEPT ![index + 1] = newData]
           /\ leafHashes' = gc.leafHashes
           /\ levels' = gc.levels
           /\ heap' = gc.heap
           /\ held' = gc.held
           /\ last' = [op |-> "updateLeaf", index |-> index,
                       oldData |-> leaves[index + 1], newData |-> newData,
                       rootBefore |-> heap[getRoot(levels)],
                       ret |-> st.heap[getRoot(st.levels)]]
    /\ updated' = TRUE
    /\ UNCHANGED << leafHashStrategy, branchHashStrategy, legacy, running >>

\* new MerkleProofVerifier(vs).verify(the held proof)
Verify(vs) ==
    /\ last.op \in TreeOps
    /\ held # <<>>
    /\ last' = [op |-> "verify", matching |-> Matching(vs),
                result |-> verify(vs, Deref(heap, held[1].proof))]
    /\ UNCHANGED << leaves, leafHashes, levels, leafHashStrategy, branchHashStrategy,
                    heap, held, updated, legacy, running >>

\* verify of the held proof with its leaf data replaced by d, by a verifier
\* with the tree's strategies
VerifyTampered(d) ==
    /\ last.op \in TreeOps
    /\ held # <<>>
    /\ d # held[1].proof.leafData
    /\ last' = [op |-> "verifyTampered",
                result |-> verify(TreePair, [Deref(heap, held[1].proof) EXCEPT !.leafData = d])]
    /\ UNCHANGED << leaves, leafHashes, levels, leafHashStrategy, branchHashStrategy,
                    heap, held, updated, legacy, running >>

\* verifySimple(leaf data of the held proof, its path in API format,
\*              tree.getRootHex()) by a verifier with the tree's strategies
VerifySimple ==
    /\ last.op \in TreeOps
    /\ held # <<>>
    /\ LET p == Deref(heap, held[1].proof)
       IN  last' = [op |-> "verifySimple",
                    result |-> verifySimple(TreePair, p.leafData, toApiFormat(p.elements),
                                            getRootHex(heap, levels))]
    /\ UNCHANGED << leaves, leafHashes, levels, leafHashStrategy, branchHashStrategy,
                    heap, held, updated, legacy, running >>

\* The bytes of the two children of the branch node at (level, pos).
childBytes(level, pos) ==
    heap[levels[level][2 * pos + 1]] \o heap[levels[level][2 * pos + 2]]

\* verify of a proof made up for the branch node at (level, pos): the bytes
\* of its two children as leaf data, the path from that node to the root and
\* the tree's root; by a verifier with the tree's strategies.
VerifyForged(level, pos) ==
    /\ last.op \in TreeOps
    /\ level >= 1 /\ level < Len(levels)
    /\ pos >= 0 /\ 2 * pos + 1 < Len(levels[level])
    /\ LET forged == [leafData |-> childBytes(level, pos),
                      leafIndex |-> 0,
                      elements |-> proofLoop(levels, level, pos),
                      rootHash |-> getRoot(levels)]
       IN  last' = [op |-> "verifyForged", level |-> level, pos |-> pos,
                    isLeaf |-> \E i \in DOMAIN leaves : toBuffer(leaves[i]) = forged.leafData,
                    result |-> verify(TreePair, Deref(heap, forged))]
    /\ UNCHANGED << leaves, leafHashes, levels, leafHashStrategy, branchHashStrategy,
                    heap, held, updated, legacy, running >>

Next ==
    \/ \E index \in 0..MaxLeaves : GenerateProof(index)
    \/ \E index \in 0..MaxLeaves, d \in Data : UpdateLeaf(index, d)
    \/ \E vs \in VerifierPairs : Verify(vs)
    \/ \E d \in Data : VerifyTampered(d)
    \/ VerifySimple
    \/ \E level \in 1..MaxLeaves, pos \in 0..MaxLeaves : VerifyForged(level, pos)

Spec == Init /\ [][Next]_vars

\* ------------------------------------------------------------- observations
\* getLeafCount()
getLeafCount == Len(leaves)

\* getLeaf(index) for a valid index
getLeaf(index) == leaves[index + 1]

\* The bytes of the current root.
Root == heap[getRoot(levels)]

\* A fresh tree constructed from the current leaves with the same strategies.
Rebuilt == construct(leaves, leafHashStrategy, branchHashStrategy)

\* The last operation was an updateLeaf that replaced data by different data.
Changed == last.op = "updateLeaf" /\ last.newData # last.oldData

\* The held proof: the one the verifier calls are about.
Checked == held[1]

\* ------------------------------------------------- calls, with their errors
\* The largest number of leaves of the trees callers construct in ApiSpec and
\* LegacySpec.
MaxCount == 4

\* The outcome of a call: the message of the Error it threw, or NoError.
NoError == "none"
RangeError == "Leaf index out of range"
EmptyError == "Cannot create a Merkle tree with no data"
UnsupportedError == "Unsupported hash strategy type"

\* The value of an array slot that was never assigned, and of a call that
\* threw.
undefined == << [k |-> "u", v |-> "undefined", msg |-> <<>>] >>

\* arr[index] of a JavaScript array
at(arr, index) == IF index + 1 \in DOMAIN arr THEN arr[index + 1] ELSE undefined

\* index < 0 || index >= length
outOfRange(index, length) == index < 0 \/ index >= length

\* ------------------------------------------------------ HashStrategyFactory
HashStrategyType == { "sha256", "tagged-sha256" }

NoStrategy == [type |-> "none", tag |-> <<>>]

\* createStrategy falling back to another tag than the constructors.
createStrategy_otherTag(type, tag) ==
    IF type = "sha256"
    THEN [error |-> NoError, value |-> Sha256Strategy]
    ELSE IF type = "tagged-sha256"
         THEN [error |-> NoError,
               value |-> TaggedSha256Strategy(IF tag = <<>> THEN Text("MERKLE_LEAF") ELSE tag)]
         ELSE [error |-> UnsupportedError, value |-> NoStrategy]

\* HashStrategyFactory.createStrategy(type, { tag }); no tag, like the empty
\* tag, is <<>>.
createStrategy(type, tag) ==
    IF type = "sha256"
    THEN [error |-> NoError, value |-> Sha256Strategy]
    ELSE IF type = "tagged-sha256"
         THEN [error |-> NoError,
               value |-> TaggedSha256Strategy(IF tag = <<>> THEN Text("Bitcoin_Transaction")
                                              ELSE tag)]
         ELSE [error |-> UnsupportedError, value |-> NoStrategy]

\* How callers obtain the strategies they construct a tree with.
Setups == { "defaults", "factoryLeaf", "factoryBoth", "factoryTags", "unsupported" }

\* The strategy pair of a setup, or the error of the factory call.
strategiesOf(setup) ==
    LET untagged == createStrategy("tagged-sha256", <<>>)
        leafTag == createStrategy("tagged-sha256", Text("BALANCE_LEAF"))
        branchTag == createStrategy("tagged-sha256", Text("BALANCE_BRANCH"))
        other == createStrategy("sha512", <<>>)
    IN  CASE setup = "defaults" ->
               [error |-> NoError, type |-> "tagged-sha256", pair |-> DefaultPair]
          [] setup = "factoryLeaf" ->
               [error |-> untagged.error, type |-> "tagged-sha256",
                pair |-> << untagged.value, DefaultPair[2] >>]
          [] setup = "factoryBoth" ->
               [error |-> untagged.error, type |-> "tagged-sha256",
                pair |-> << untagged.value, untagged.value >>]
          [] setup = "factoryTags" ->
               [error |-> leafTag.error, type |-> "tagged-sha256",
                pair |-> << leafTag.value, branchTag.value >>]
          [] OTHER ->
               [error |-> other.error, type |-> "sha512",
                pair |-> << other.value, other.value >>]

\* The pairs of the setups that name no tag.
DefaultBuilt ==
    { strategiesOf(s).pair : s \in { "defaults", "factoryLeaf", "factoryBoth" } }

\* -------------------------------------------------- MerkleTree constructor
NoTree == [leaves |-> <<>>, leafHashes |-> <<>>, levels |-> <<>>, heap |-> <<>>]

\* The constructor without its check of the data.
newMerkleTree_noCheck(data, leafStrategy, branchStrategy) ==
    [error |-> NoError, tree |-> construct(data, leafStrategy, branchStrategy)]

\* new MerkleTree(data, leafStrategy, branchStrategy)
newMerkleTree(data, leafStrategy, branchStrategy) ==
    IF Len(data) = 0
    THEN [error |-> EmptyError, tree |-> NoTree]
    ELSE [error |-> NoError, tree |-> construct(data, leafStrategy, branchStrategy)]

\* ------------------------------------------------------ MerkleTree methods
\* tree.getLeaf(index)
callGetLeaf(lvs, index) ==
    IF outOfRange(index, Len(lvs))
    THEN [error |-> RangeError, value |-> undefined]
    ELSE [error |-> NoError, value |-> at(lvs, index)]

\* tree.getLeafHash(index): the Buffer, by reference
callGetLeafHash(lh, index) ==
    IF outOfRange(index, Len(lh))
    THEN [error |-> RangeError, value |-> 0]
    ELSE [error |-> NoError, value |-> lh[index + 1]]

\* tree.generateProof(index)
callGenerateProof(lvs, lvls, index) ==
    IF outOfRange(index, Len(lvs))
    THEN [error |-> RangeError, value |-> undefined]
    ELSE [error |-> NoError, value |-> generateProof(lvs, lvls, index)]

RECURSIVE findIndex(_, _, _)
\* Array.prototype.findIndex(leaf => leaf === data), scanning from index i
findIndex(lvs, data, i) ==
    IF i >= Len(lvs) THEN -1
    ELSE IF lvs[i + 1] = data THEN i
    ELSE findIndex(lvs, data, i + 1)

RECURSIVE findLast(_, _, _)
\* The scan from the last leaf down.
findLast(lvs, data, i) ==
    IF i < 0 THEN -1
    ELSE IF lvs[i + 1] = data THEN i
    ELSE findLast(lvs, data, i - 1)

\* findLeaf returning the last match.
findLeaf_last(lvs, data) == findLast(lvs, data, Len(lvs) - 1)

\* tree.findLeaf(data)
findLeaf(lvs, data) == findIndex(lvs, data, 0)

\* updateLeaf assigning leaves[index] before it checks the index: index ===
\* length appends to the array.
callUpdateLeaf_assignFirst(h, leafStrategy, branch, lvs, lh, lvls, index, newData) ==
    IF outOfRange(index, Len(lvs))
    THEN [error |-> RangeError,
          leaves |-> IF index = Len(lvs) THEN Append(lvs, newData) ELSE lvs,
          heap |-> h, leafHashes |-> lh, levels |-> lvls, value |-> undefined]
    ELSE LET st == updateLeaf(h, leafStrategy, branch, lh, lvls, index, newData)
         IN  [error |-> NoError,
              leaves |-> [lvs EXCEPT ![index + 1] = newData],
              heap |-> st.heap, leafHashes |-> st.leafHashes, levels |-> st.levels,
              value |-> st.heap[getRoot(st.levels)]]

\* tree.updateLeaf(index, newData): the fields after the call, and the bytes
\* of the root it returned
callUpdateLeaf(h, leafStrategy, branch, lvs, lh, lvls, index, newData) ==
    IF outOfRange(index, Len(lvs))
    THEN [error |-> RangeError,
          leaves |-> lvs, heap |-> h, leafHashes |-> lh, levels |-> lvls,
          value |-> undefined]
    ELSE LET st == updateLeaf(h, leafStrategy, branch, lh, lvls, index, newData)
         IN  [error |-> NoError,
              leaves |-> [lvs EXCEPT ![index + 1] = newData],
              heap |-> st.heap, leafHashes |-> st.leafHashes, levels |-> st.levels,
              value |-> st.heap[getRoot(st.levels)]]

\* --------------------------------------------------- legacy/simple verifier
\* A character that is no hexadecimal digit.
NotHex == Chr("z")

RECURSIVE IsHex(_)
\* The string is made of pairs of hexadecimal digits only.
IsHex(s) ==
    IF s = <<>> THEN TRUE
    ELSE IF Len(s) < 2 THEN FALSE
    ELSE IsHexPair(s[1], s[2]) /\ IsHex(SubSeq(s, 3, Len(s)))

\* MerkleProofVerifier.legacyVerify; proofPath holds << sibling, position >>
legacyVerify(vs, leafData, proofPath, expectedRoot) ==
    applyAll(vs[2], hash(vs[1], leafData),
             [e \in DOMAIN proofPath |->
                [siblingHash |-> fromHex(proofPath[e][1]),
                 direction |-> IF proofPath[e][2] = "left" THEN LEFT ELSE RIGHT]])
        = fromHex(expectedRoot)

\* The { sibling, position } form of a proof path.
toLegacyFormat(elements) ==
    [e \in DOMAIN elements |->
       << toHex(elements[e].siblingHash),
          IF elements[e].direction = LEFT THEN "left" ELSE "right" >>]

\* Ways a hexadecimal string arrives damaged: characters that are no digits
\* after it or in its place, or its last digit missing.
Damages == { "appended", "replaced", "truncated" }

damage(hex, how) ==
    CASE how = "appended" -> hex \o << NotHex, NotHex >>
      [] how = "replaced" -> << NotHex, NotHex >>
      [] OTHER -> SubSeq(hex, 1, Len(hex) - 1)

\* ------------------------------------------------------------------ ApiSpec
\* Callers and single calls of the tree's methods, with valid and invalid
\* arguments, on trees of up to MaxCount leaves.
ApiLeafSeqs == UNION { [1..n -> Data] : n \in 0..MaxCount }

Indices == (-2)..(MaxCount + 1)

treeVars == << leaves, leafHashes, levels, leafHashStrategy, branchHashStrategy,
               heap, held, updated, legacy, running >>

\* The caller obtains the strategies and constructs the tree; when either
\* throws there is no tree.
ApiInit ==
    \E setup \in Setups, data \in ApiLeafSeqs :
        LET sp == strategiesOf(setup)
            r == IF sp.error # NoError
                 THEN [error |-> sp.error, tree |-> NoTree]
                 ELSE newMerkleTree(data, sp.pair[1], sp.pair[2])
        IN  /\ leaves = r.tree.leaves
            /\ leafHashes = r.tree.leafHashes
            /\ levels = r.tree.levels
            /\ heap = r.tree.heap
            /\ leafHashStrategy = IF r.error = NoError THEN sp.pair[1] ELSE NoStrategy
            /\ branchHashStrategy = IF r.error = NoError THEN sp.pair[2] ELSE NoStrategy
            /\ held = <<>>
            /\ updated = FALSE
            /\ legacy = NoLegacy
            /\ running = NoCall
            /\ last = IF sp.error # NoError
                      THEN [op |-> "createStrategy", type |-> sp.type, data |-> data,
                            error |-> sp.error]
                      ELSE [op |-> "constructor", type |-> sp.type, data |-> data,
                            error |-> r.error]

\* The constructor returned an instance.
TreeExists == ~(last.op \in { "createStrategy", "constructor" } /\ last.error # NoError)

\* The tree is as the constructor or an updateLeaf call left it.  The other
\* calls change no field of the tree, so a scenario ends with them.
ApiReady == TreeExists /\ last.op \in { "constructor", "updateLeaf" }

\* The slots whose content differs after the call with outcome r, and the
\* Buffers that existed before the call and hold other bytes after it.
writtenBy(r) ==
    [leaves |-> { j \in 0..(Len(leaves) - 1) : at(r.leaves, j) # leaves[j + 1] },
     leafHashes |-> { j \in 0..(Len(leafHashes) - 1) : r.leafHashes[j + 1] # leafHashes[j + 1] },
     levels |-> { lp \in UNION { { << l, q >> : q \in 0..(Len(levels[l + 1]) - 1) } :
                                   l \in 0..(Len(levels) - 1) } :
                    r.levels[lp[1] + 1][lp[2] + 1] # levels[lp[1] + 1][lp[2] + 1] },
     buffers |-> { a \in DOMAIN heap : r.heap[a] # heap[a] }]

ApiGetLeaf(index) ==
    /\ ApiReady
    /\ LET r == callGetLeaf(leaves, index)
       IN  last' = [op |-> "getLeaf", index |-> index, error |-> r.error, value |-> r.value]
    /\ UNCHANGED treeVars

ApiGetLeafHash(index) ==
    /\ ApiReady
    /\ LET r == callGetLeafHash(leafHashes, index)
       IN  last' = [op |-> "getLeafHash", index |-> index, error |-> r.error,
                    value |-> IF r.error = NoError THEN heap[r.value] ELSE undefined]
    /\ UNCHANGED treeVars

ApiFindLeaf(data) ==
    /\ ApiReady
    /\ last' = [op |-> "findLeaf", data |-> data, error |-> NoError,
                value |-> findLeaf(leaves, data)]
    /\ UNCHANGED treeVars

ApiGenerateProof(index) ==
    /\ ApiReady
    /\ LET r == callGenerateProof(leaves, levels, index)
       IN  last' = [op |-> "generateProof", index |-> index, error |-> r.error,
                    value |-> IF r.error = NoError THEN Deref(heap, r.value) ELSE undefined]
    /\ UNCHANGED treeVars

\* new MerkleProofVerifier().verify(tree.generateProof(index)) with a valid
\* index
ApiVerifyDefault(index) ==
    /\ ApiReady
    /\ ~outOfRange(index, Len(leaves))
    /\ last' = [op |-> "verifyDefault", index |-> index, error |-> NoError,
                value |-> verify(DefaultPair,
                                 Deref(heap, generateProof(leaves, levels, index)))]
    /\ UNCHANGED treeVars

ApiUpdateLeaf(index, newData) ==
    /\ ApiReady
    /\ \E r \in { callUpdateLeaf(heap, leafHashStrategy, branchHashStrategy,
                                 leaves, leafHashes, levels, index, newData) } :
       \E gc \in { collect(r.heap, r.leafHashes, r.levels, <<>>) } :
           /\ leaves' = r.leaves
           /\ leafHashes' = gc.leafHashes
           /\ levels' = gc.levels
           /\ heap' = gc.heap
           /\ updated' = (updated \/ r.error = NoError)
           /\ last' = [op |-> "updateLeaf", index |-> index, error |-> r.error,
                       oldData |-> at(leaves, index), newData |-> newData,
                       value |-> r.value,
                       written |-> writtenBy(r)]
    /\ UNCHANGED << leafHashStrategy, branchHashStrategy, held, legacy, running >>

\* verifySimple and legacyVerify, by a verifier with the tree's strategies,
\* of the proof of leaf `index` with the hexadecimal string of the root or of
\* the first sibling damaged.  Buffer.from(s, 'hex') throws for no string, so
\* neither call has a path that ends in an error.
ApiVerifyDamaged(entry, index, where, how) ==
    /\ ApiReady
    /\ ~outOfRange(index, Len(leaves))
    /\ LET p == Deref(heap, generateProof(leaves, levels, index))
           sibling == IF where = "sibling" THEN damage(toHex(p.elements[1].siblingHash), how)
                      ELSE <<>>
           simple == [e \in DOMAIN p.elements |->
                        IF where = "sibling" /\ e = 1
                        THEN << sibling, p.elements[e].direction >>
                        ELSE toApiFormat(p.elements)[e]]
           path == [e \in DOMAIN p.elements |->
                      IF where = "sibling" /\ e = 1
                      THEN << sibling, toLegacyFormat(p.elements)[e][2] >>
                      ELSE toLegacyFormat(p.elements)[e]]
           root == IF where = "root" THEN damage(getRootHex(heap, levels), how)
                   ELSE getRootHex(heap, levels)
       IN  /\ where = "sibling" => p.elements # <<>>
           /\ last' = [op |-> entry, index |-> index, where |-> where, how |-> how,
                       wellFormed |-> IsHex(root) /\ \A e \in DOMAIN simple : IsHex(simple[e][1]),
                       error |-> NoError,
                       value |-> IF entry = "verifySimple"
                                 THEN verifySimple(TreePair, p.leafData, simple, root)
                                 ELSE legacyVerify(TreePair, p.leafData, path, root)]
    /\ UNCHANGED treeVars

\* tree.getRoot()
ApiGetRoot ==
    /\ ApiReady
    /\ last' = [op |-> "getRoot", error |-> NoError, value |-> heap[getRoot(levels)]]
    /\ UNCHANGED treeVars

\* tree.exportTree()
ApiExportTree ==
    /\ ApiReady
    /\ last' = [op |-> "exportTree", error |-> NoError, value |-> exportTree(heap, levels)]
    /\ UNCHANGED treeVars

\* The proof of leaf `index` given to verify, to verifySimple and to
\* legacyVerify of one verifier, with the tree's strategies or plain SHA-256.
ApiVerifyAll(index, vs) ==
    /\ ApiReady
    /\ ~outOfRange(index, Len(leaves))
    /\ LET p == Deref(heap, generateProof(leaves, levels, index))
       IN  last' = [op |-> "verifyAll", index |-> index, error |-> NoError,
                    matching |-> Matching(vs),
                    api |-> toApiFormat(p.elements),
                    verify |-> verify(vs, p),
                    simple |-> verifySimple(vs, p.leafData, toApiFormat(p.elements),
                                            toHex(p.rootHash)),
                    legacy |-> legacyVerify(vs, p.leafData, toLegacyFormat(p.elements),
                                            toHex(p.rootHash))]
    /\ UNCHANGED treeVars

\* verify of the proof of leaf `index` as issued and with another index
\* recorded in it: that of the first leaf or of the next one.
ApiVerifyReindexed(index, other, vs) ==
    /\ ApiReady
    /\ ~outOfRange(index, Len(leaves))
    /\ other # index /\ other \in { 0, index + 1 }
    /\ LET p == Deref(heap, generateProof(leaves, levels, index))
       IN  last' = [op |-> "verifyReindexed", index |-> index, other |-> other,
                    error |-> NoError,
                    original |-> verify(vs, p),
                    value |-> verify(vs, [leafData |-> p.leafData, leafIndex |-> other,
                                          elements |-> p.elements, rootHash |-> p.rootHash])]
    /\ UNCHANGED treeVars

ApiNext ==
    \/ ApiGetRoot
    \/ ApiExportTree
    \/ \E index \in Indices, vs \in { TreePair, PlainPair } : ApiVerifyAll(index, vs)
    \/ \E index \in Indices, other \in Indices, vs \in { TreePair, PlainPair } :
           ApiVerifyReindexed(index, other, vs)
    \/ \E index \in Indices : ApiGetLeaf(index)
    \/ \E index \in Indices : ApiGetLeafHash(index)
    \/ \E data \in Data \cup { Text("not_found") } : ApiFindLeaf(data)
    \/ \E index \in Indices : ApiGenerateProof(index)
    \/ \E index \in Indices : ApiVerifyDefault(index)
    \/ \E index \in Indices, data \in Data : ApiUpdateLeaf(index, data)
    \/ \E entry \in { "verifySimple", "legacyVerify" }, index \in Indices,
          where \in { "root", "sibling" }, how \in Damages :
           ApiVerifyDamaged(entry, index, where, how)

ApiSpec == ApiInit /\ [][ApiNext]_vars

\* ------------------------------------------- the MerkleTree of merkleTree.ts
\* taggedHash(computeTagHash(tag), msg)
legacyTaggedHash(tag, msg) == sha256(tagHash(tag) \o tagHash(tag) \o msg)

\* The level as buildTree stores it: an odd level with its last node pushed
\* a second time.
legacyPad(levelNodes) ==
    IF Len(levelNodes) % 2 = 1
    THEN Append(levelNodes, levelNodes[Len(levelNodes)])
    ELSE levelNodes

\* The for loop of buildTree over a padded level.
legacyParents(branchTag, levelNodes) ==
    [p \in 1..(Len(levelNodes) \div 2) |->
       legacyTaggedHash(branchTag, levelNodes[2 * p - 1] \o levelNodes[2 * p])]

RECURSIVE legacyLoop_storeUnpadded(_, _, _)
\* legacyLoop padding a copy of the level and storing the level itself.
legacyLoop_storeUnpadded(branchTag, lvls, levelNodes) ==
    IF Len(levelNodes) > 1
    THEN legacyLoop_storeUnpadded(branchTag, Append(lvls, levelNodes),
                                  legacyParents(branchTag, legacyPad(levelNodes)))
    ELSE [levels |-> Append(lvls, levelNodes), root |-> levelNodes[1]]

RECURSIVE legacyLoop(_, _, _)
\* The while loop of buildTree and the two assignments after it.
legacyLoop(branchTag, lvls, levelNodes) ==
    IF Len(levelNodes) > 1
    THEN legacyLoop(branchTag, Append(lvls, legacyPad(levelNodes)),
                    legacyParents(branchTag, legacyPad(levelNodes)))
    ELSE [levels |-> Append(lvls, levelNodes), root |-> levelNodes[1]]

\* buildTree(): Buffer.alloc(0) is the root of no leaves
legacyBuildTree(branchTag, hashes) ==
    IF Len(hashes) = 0
    THEN [levels |-> <<>>, root |-> <<>>]
    ELSE legacyLoop(branchTag, <<>>, hashes)

\* new MerkleTree(leavesData, leafTag, branchTag) of merkleTree.ts
legacyConstruct(leavesData, leafTag, branchTag) ==
    LET lh == [i \in DOMAIN leavesData |-> legacyTaggedHash(leafTag, utf8(leavesData[i]))]
        bt == legacyBuildTree(branchTag, lh)
    IN  [leafHashes |-> lh, levels |-> bt.levels, root |-> bt.root, built |-> TRUE]

\* getHexRoot()
getHexRoot(t) == toHex(t.root)

RECURSIVE legacyProofLoop(_, _, _)
\* The for loop of getProof from `level` on, 0-based; side 0 is a sibling on
\* the left.
legacyProofLoop(lvls, level, currentIndex) ==
    IF level < Len(lvls) - 1
    THEN LET levelNodes == lvls[level + 1]
             isEvenIndex == currentIndex % 2 = 0
             siblingIndex == IF isEvenIndex THEN currentIndex + 1 ELSE currentIndex - 1
             side == IF isEvenIndex THEN 1 ELSE 0
         IN  << [siblingHash |-> at(levelNodes, siblingIndex), side |-> side] >>
                 \o legacyProofLoop(lvls, level + 1, currentIndex \div 2)
    ELSE <<>>

\* getProof(index)
getProof(t, index) ==
    IF index < 0 \/ index >= Len(t.leafHashes)
    THEN <<>>
    ELSE legacyProofLoop(t.levels, 0, index)

\* --------------------------------------------------------------- LegacySpec
\* The tag pairs both trees are constructed with.
TagPairs ==
    { << Text("Bitcoin_Transaction"), Text("Bitcoin_Transaction") >>,
      << Text("BALANCE_LEAF"), Text("BALANCE_BRANCH") >> }

\* Both trees of the repository constructed from the same leaves with the
\* same tags; tree/MerkleTree throws for no leaves.
LegacyInit ==
    \E data \in ApiLeafSeqs, tags \in TagPairs :
        LET r == newMerkleTree(data, TaggedSha256Strategy(tags[1]),
                               TaggedSha256Strategy(tags[2]))
        IN  /\ legacy = legacyConstruct(data, tags[1], tags[2])
            /\ running = NoCall
            /\ leaves = r.tree.leaves
            /\ leafHashes = r.tree.leafHashes
            /\ levels = r.tree.levels
            /\ heap = r.tree.heap
            /\ leafHashStrategy =
                  IF r.error = NoError THEN TaggedSha256Strategy(tags[1]) ELSE NoStrategy
            /\ branchHashStrategy =
                  IF r.error = NoError THEN TaggedSha256Strategy(tags[2]) ELSE NoStrategy
            /\ held = <<>>
            /\ updated = FALSE
            /\ last = [op |-> "constructor", type |-> "tagged-sha256", data |-> data,
                       error |-> r.error]

LegacyGetProof(index) ==
    /\ last' = [op |-> "getProof", index |-> index, error |-> NoError,
                value |-> getProof(legacy, index)]
    /\ UNCHANGED treeVars

LegacyGetHexRoot ==
    /\ last' = [op |-> "getHexRoot", error |-> NoError, value |-> getHexRoot(legacy)]
    /\ UNCHANGED treeVars

\* fromLibraryFormat writing the other direction.
fromLibraryFormat_flipped(libProof) ==
    [e \in DOMAIN libProof |->
       [siblingHash |-> libProof[e].siblingHash, direction |-> 1 - libProof[e].side]]

\* MerkleProof.fromLibraryFormat: the side is taken as the direction
fromLibraryFormat(libProof) ==
    [e \in DOMAIN libProof |->
       [siblingHash |-> libProof[e].siblingHash, direction |-> libProof[e].side]]

\* verify, by a verifier with tagged strategies of the legacy tree's tags, of
\* new MerkleProof(leaf data, index, fromLibraryFormat(getProof(index)),
\*                 the legacy tree's root)
LegacyRoundTrip(index) ==
    /\ ~outOfRange(index, Len(leaves))
    /\ last' = [op |-> "roundTrip", index |-> index, error |-> NoError,
                value |-> verify(TreePair,
                                 [leafData |-> leaves[index + 1],
                                  leafIndex |-> index,
                                  elements |-> fromLibraryFormat(getProof(legacy, index)),
                                  rootHash |-> legacy.root])]
    /\ UNCHANGED treeVars

LegacyNext ==
    \/ \E index \in Indices : LegacyRoundTrip(index)
    \/ \E index \in Indices : LegacyGetProof(index)
    \/ LegacyGetHexRoot

LegacySpec == LegacyInit /\ [][LegacyNext]_vars

\* ---------------------------------------- updateLeaf, one slot write a step
\* recomputeStep concatenating the pair in the wrong order.
recomputeStep_swapped(h, branch, lvls, level, currentIndex) ==
    LET parentLevel == level + 1
        parentIndex == currentIndex \div 2
        levelNodes == lvls[level + 1]
        isRightChild == currentIndex % 2 = 1
        siblingIndex == IF isRightChild THEN currentIndex - 1 ELSE currentIndex + 1
        first == levelNodes[(IF isRightChild THEN siblingIndex ELSE currentIndex) + 1]
        second == levelNodes[(IF isRightChild THEN currentIndex ELSE siblingIndex) + 1]
    IN  IF siblingIndex >= Len(levelNodes)
        THEN [heap |-> h,
              levels |-> [lvls EXCEPT ![parentLevel + 1][parentIndex + 1] =
                                          levelNodes[currentIndex + 1]]]
        ELSE setSlot(h, lvls, parentLevel, parentIndex,
                     hash(branch, h[second] \o h[first]))

\* One iteration of the for loop of updateLeaf: the write of the parent slot
\* of (level, currentIndex).
recomputeStep(h, branch, lvls, level, currentIndex) ==
    LET parentLevel == level + 1
        parentIndex == currentIndex \div 2
        levelNodes == lvls[level + 1]
        isRightChild == currentIndex % 2 = 1
        siblingIndex == IF isRightChild THEN currentIndex - 1 ELSE currentIndex + 1
        first == levelNodes[(IF isRightChild THEN siblingIndex ELSE currentIndex) + 1]
        second == levelNodes[(IF isRightChild THEN currentIndex ELSE siblingIndex) + 1]
    IN  IF siblingIndex >= Len(levelNodes)
        THEN [heap |-> h,
              levels |-> [lvls EXCEPT ![parentLevel + 1][parentIndex + 1] =
                                          levelNodes[currentIndex + 1]]]
        ELSE setSlot(h, lvls, parentLevel, parentIndex,
                     hash(branch, h[first] \o h[second]))

\* The strategies and the legacy instance, which no step of StepSpec changes.
fixedVars == << leafHashStrategy, branchHashStrategy, legacy >>

\* updateLeaf(index, newData) up to its first write: the range check, then
\* this.leaves[index] = newData.
StepBegin(index, newData) ==
    /\ running.pc = "idle"
    /\ IF outOfRange(index, Len(leaves))
       THEN /\ last' = [op |-> "updateLeaf", error |-> RangeError]
            /\ UNCHANGED << leaves, running, held >>
       ELSE /\ leaves' = [leaves EXCEPT ![index + 1] = newData]
            /\ running' = [pc |-> "leafHash", index |-> index, level |-> 0,
                           currentIndex |-> index, newData |-> newData]
            /\ held' = <<>>
            /\ last' = [op |-> "write", slot |-> "leaves"]
    /\ UNCHANGED << leafHashes, levels, heap, updated >>
    /\ UNCHANGED fixedVars

\* this.leafHashes[index] = this.leafHashStrategy.hash(newData)
StepLeafHash ==
    /\ running.pc = "leafHash"
    /\ \E gc \in { collect(Append(heap, hash(leafHashStrategy, running.newData)),
                           [leafHashes EXCEPT ![running.index + 1] = Len(heap) + 1],
                           levels, held) } :
           /\ heap' = gc.heap
           /\ leafHashes' = gc.leafHashes
           /\ levels' = gc.levels
           /\ held' = gc.held
    /\ running' = [running EXCEPT !.pc = "level0"]
    /\ last' = [op |-> "write", slot |-> "leafHashes"]
    /\ UNCHANGED << leaves, updated >>
    /\ UNCHANGED fixedVars

\* this.levels[0][index] = this.leafHashes[index]; let currentIndex = index
StepLevel0 ==
    /\ running.pc = "level0"
    /\ \E gc \in { collect(heap, leafHashes,
                           [levels EXCEPT ![1][running.index + 1] =
                                              leafHashes[running.index + 1]],
                           held) } :
           /\ heap' = gc.heap
           /\ leafHashes' = gc.leafHashes
           /\ levels' = gc.levels
           /\ held' = gc.held
    /\ running' = [running EXCEPT !.pc = "loop", !.level = 0,
                                  !.currentIndex = running.index]
    /\ last' = [op |-> "write", slot |-> "levels"]
    /\ UNCHANGED << leaves, updated >>
    /\ UNCHANGED fixedVars

\* One iteration of the for loop: the parent slot is written, then
\* currentIndex = parentIndex and level++.
StepLoop ==
    /\ running.pc = "loop"
    /\ running.level < Len(levels) - 1
    /\ \E st \in { recomputeStep(heap, branchHashStrategy, levels,
                                 running.level, running.currentIndex) } :
       \E gc \in { collect(st.heap, leafHashes, st.levels, held) } :
           /\ heap' = gc.heap
           /\ leafHashes' = gc.leafHashes
           /\ levels' = gc.levels
           /\ held' = gc.held
    /\ running' = [running EXCEPT !.level = @ + 1,
                                  !.currentIndex = @ \div 2]
    /\ last' = [op |-> "write", slot |-> "levels"]
    /\ UNCHANGED << leaves, updated >>
    /\ UNCHANGED fixedVars

\* The loop is left and updateLeaf returns this.getRoot().
StepReturn ==
    /\ running.pc = "loop"
    /\ ~ (running.level < Len(levels) - 1)
    /\ running' = NoCall
    /\ updated' = TRUE
    /\ last' = [op |-> "updateLeaf", error |-> NoError]
    /\ UNCHANGED << leaves, leafHashes, levels, heap, held >>
    /\ UNCHANGED fixedVars

\* generateProof(index) for a valid index, run from its first line to its
\* last wherever the updateLeaf call stands, and verify of the proof by a
\* verifier with the tree's strategies. The caller keeps a proof issued
\* while an updateLeaf call was under way.
StepGenerateProof(index) ==
    /\ index >= 0 /\ index < Len(leaves)
    /\ \E p \in { generateProof(leaves, levels, index) } :
           /\ last' = [op |-> "generateProof", index |-> index,
                       during |-> running.pc,
                       result |-> verify(TreePair, Deref(heap, p))]
           /\ IF running.pc = "idle"
              THEN UNCHANGED << heap, leafHashes, levels, held >>
              ELSE \E gc \in { collect(heap, leafHashes, levels,
                                       << [proof |-> p, issued |-> Deref(heap, p),
                                           changes |-> 0, during |-> running.pc,
                                           level |-> running.level] >>) } :
                       /\ heap' = gc.heap
                       /\ leafHashes' = gc.leafHashes
                       /\ levels' = gc.levels
                       /\ held' = gc.held
    /\ UNCHANGED << leaves, updated, running >>
    /\ UNCHANGED fixedVars

StepNext ==
    \/ \E index \in 0..MaxLeaves, newData \in Data : StepBegin(index, newData)
    \/ StepLeafHash
    \/ StepLevel0
    \/ StepLoop
    \/ StepReturn
    \/ \E index \in 0..MaxLeaves : StepGenerateProof(index)

StepSpec == Init /\ [][StepNext]_vars

\* -------------------------------------------------------------------- claims

\* C1: right after construction, verify(generateProof(i)) is true for every
\* valid index i when the verifier uses the tree's strategy pair, also when
\* the path passes through carried (unpaired) nodes.
ProofRoundTrip ==
    (last.op = "verify" /\ last.matching /\ ~updated) => last.result = TRUE

\* Reached: the proof of the carried third leaf of a three-leaf tree, which
\* has one element for two levels below the root, was verified.
ProofRoundTripWitness ==
    /\ last.op = "verify" /\ last.matching /\ ~updated
    /\ getLeafCount = 3 /\ Len(levels) = 3
    /\ Checked.proof.leafIndex = 2
    /\ Len(Checked.proof.elements) = 1
    /\ last.result = TRUE

\* C2: after updateLeaf calls, generateProof(j) for every valid j reports the
\* current leaf data of j and the current root, and a verifier with the
\* tree's strategies accepts it.
UpdateConsistency ==
    /\ (last.op = "generateProof" /\ updated) =>
          /\ Checked.proof.leafData = getLeaf(last.index)
          /\ heap[Checked.proof.rootHash] = Root
    /\ (last.op = "verify" /\ last.matching /\ updated /\ Checked.changes = 0) =>
          last.result = TRUE

\* Reached: after an update of a three-leaf tree, the proof of the first
\* leaf, issued after it, was verified.
UpdateConsistencyWitness ==
    /\ last.op = "verify" /\ last.matching /\ updated
    /\ Checked.changes = 0
    /\ Checked.proof.leafIndex = 0
    /\ Len(Checked.proof.elements) = 2
    /\ getLeafCount = 3
    /\ last.result = TRUE

\* C3: after any sequence of updateLeaf calls, exportTree() equals the
\* exportTree() of a fresh tree constructed from the current leaves with the
\* same strategy pair.
IncrementalEqualsRebuild ==
    exportTree(heap, levels) = exportTree(Rebuilt.heap, Rebuilt.levels)

\* Reached: an update changed the carried leaf of a three-leaf tree.
IncrementalEqualsRebuildWitness ==
    /\ Changed
    /\ getLeafCount = 3 /\ last.index = 2

StaleProofsRejected ==
    (last.op = "verifySimple" /\ Checked.changes >= 1) => last.result = FALSE

\* C5 amended: a proof issued in the tree state that the data-changing
\* updateLeaf was applied to (no other change of data in between), checked
\* with verifySimple against the root after that update, is rejected.
StaleProofsRejectedAfterOneChange ==
    (last.op = "verifySimple" /\ Checked.changes = 1) => last.result = FALSE

\* Reached: the proof of a leaf was checked against the new root after
\* another leaf was changed, and was rejected.
StaleProofsRejectedWitness ==
    /\ last.op = "verifySimple" /\ Checked.changes = 1
    /\ Checked.proof.leafData = getLeaf(Checked.proof.leafIndex)
    /\ getLeafCount = 3
    /\ last.result = FALSE

\* C6: updateLeaf(i, newData) returns the tree's new root (getRoot() right
\* after the call), getLeaf(i) is newData, and the root differs from the
\* root before the call when newData differs from the previous data.
UpdateReturnsNewRoot ==
    last.op = "updateLeaf" =>
        /\ last.ret = Root
        /\ getLeaf(last.index) = last.newData
        /\ (Changed => last.ret # last.rootBefore)

\* Reached: updateLeaf changed the carried leaf of a three-leaf tree.
UpdateReturnsNewRootWitness ==
    /\ Changed
    /\ getLeafCount = 3 /\ last.index = 2
    /\ last.ret # last.rootBefore
    /\ last.ret = Root

\* C7: a proof whose leaf data was replaced by different data, with the
\* sibling path and recorded root kept, makes verification return the
\* boolean false.
TamperDetection ==
    last.op = "verifyTampered" => (last.result \in BOOLEAN /\ last.result = FALSE)

\* Reached: a tampered proof with a non-empty path was rejected.
TamperDetectionWitness ==
    /\ last.op = "verifyTampered"
    /\ Len(Checked.proof.elements) >= 1
    /\ last.result = FALSE

\* C8: against the root of a tree with tagged strategies the verifier
\* accepts leaf data only if it is one of the tree's leaves; the bytes of a
\* branch node's two children presented as leaf data, with the path from
\* that node to the root, are rejected, also with the default tags.
VerificationSound ==
    (/\ last.op = "verifyForged"
     /\ leafHashStrategy.type = "tagged-sha256"
     /\ ~last.isLeaf) => last.result = FALSE

\* The shape of exportTree() and the tree's counts.
ShapeOK ==
    LET t == exportTree(heap, levels)
    IN  /\ Len(t[1]) = getLeafCount
        /\ Len(t[Len(t)]) = 1
        /\ t[Len(t)][1] = getRootHex(heap, levels)
        /\ \A l \in 2..Len(t) :
              Len(t[l]) = (Len(t[l - 1]) \div 2) + (Len(t[l - 1]) % 2)

\* C9: in every reachable state level 0 of exportTree() has getLeafCount()
\* entries, the last level has one entry equal to getRootHex(), each further
\* level has floor(n/2) + (n mod 2) entries; no step changes the leaf count
\* or the number of levels.
ShapeInvariant ==
    /\ []ShapeOK
    /\ [][Len(leaves') = Len(leaves) /\ Len(levels') = Len(levels)]_vars

\* Reached: a three-leaf tree, with levels of 3, 2 and 1 entries, after an
\* update.
ShapeInvariantWitness ==
    /\ last.op = "updateLeaf"
    /\ getLeafCount = 3 /\ Len(levels) = 3
    /\ Len(levels[2]) = 2

\* C10: a one-leaf tree has one level, its root is leafStrategy.hash(leaf)
\* with no branch hash applied, its proofs have no elements and verify; also
\* after updateLeaf(0, d).
SingleLeafIdentity ==
    getLeafCount = 1 =>
        /\ Len(levels) = 1
        /\ Root = hash(leafHashStrategy, getLeaf(0))
        /\ \A k \in DOMAIN held : held[k].proof.elements = <<>>
        /\ (last.op = "verify" /\ last.matching) => last.result = TRUE

\* Reached: a one-leaf tree after an update, whose proof issued after the
\* update was verified.
SingleLeafIdentityWitness ==
    /\ getLeafCount = 1 /\ updated
    /\ last.op = "verify" /\ last.matching
    /\ Checked.changes = 0
    /\ Checked.issued.leafData = getLeaf(0)
    /\ last.result = TRUE

\* C11: getLeaf, getLeafHash, generateProof and updateLeaf fail with the
\* index-out-of-range error for every index < 0 and every index >= the leaf
\* count, and an updateLeaf call that failed changed neither the leaves nor
\* the leaf hashes, the levels or the root.
BoundsChecked ==
    /\ [](last.op \in { "getLeaf", "getLeafHash", "generateProof", "updateLeaf" } =>
            ((last.index < 0 \/ last.index >= getLeafCount) => last.error = RangeError))
    /\ [][(last'.op = "updateLeaf" /\ last'.error # NoError) =>
              UNCHANGED << leaves, leafHashes, levels, heap >>]_vars

\* Reached: updateLeaf(leafCount, d) on a three-leaf tree that had been
\* updated before failed.
BoundsCheckedWitness ==
    /\ last.op = "updateLeaf" /\ last.error = RangeError
    /\ updated
    /\ getLeafCount = 3 /\ last.index = getLeafCount

\* C12: the constructor fails with 'Cannot create a Merkle tree with no
\* data' exactly for an empty leaf sequence and then yields no tree; every
\* tree that exists has at least one leaf and a root.
NonEmptyTree ==
    /\ last.op = "constructor" => (last.error = EmptyError <=> last.data = <<>>)
    /\ (last.op = "constructor" /\ last.error # NoError) => ~TreeExists
    /\ TreeExists =>
          /\ getLeafCount >= 1
          /\ Len(levels) >= 1
          /\ Len(levels[Len(levels)]) = 1
          /\ getRoot(levels) \in DOMAIN heap

\* Reached: the constructor was called with an empty sequence and threw.
NonEmptyTreeWitness ==
    /\ last.op = "constructor" /\ last.data = <<>>
    /\ last.error = EmptyError
    /\ ~TreeExists /\ levels = <<>>

RECURSIVE IsPowerOfTwo(_)
IsPowerOfTwo(n) == n = 1 \/ (n > 1 /\ n % 2 = 0 /\ IsPowerOfTwo(n \div 2))

RECURSIVE log2(_)
log2(n) == IF n <= 1 THEN 0 ELSE 1 + log2(n \div 2)

\* Bit l of the index i.
bit(i, l) == (i \div (2 ^ l)) % 2

\* C13: in a tree of 2^k leaves generateProof(i) has k elements, leaf level
\* first; the element of level l is the sibling of the node of i at that
\* level, with direction RIGHT when bit l of i is 0 and LEFT when it is 1;
\* the proof's leaf data is getLeaf(i) and its leaf index is i.
BalancedProofShape ==
    (last.op = "generateProof" /\ last.error = NoError /\ IsPowerOfTwo(getLeafCount)) =>
        /\ Len(last.value.elements) = log2(getLeafCount)
        /\ \A l \in 0..(Len(last.value.elements) - 1) :
              LET node == last.index \div (2 ^ l)
                  sibling == IF bit(last.index, l) = 0 THEN node + 1 ELSE node - 1
              IN  /\ last.value.elements[l + 1].direction =
                        (IF bit(last.index, l) = 0 THEN RIGHT ELSE LEFT)
                  /\ last.value.elements[l + 1].siblingHash = heap[levels[l + 1][sibling + 1]]
        /\ last.value.leafData = getLeaf(last.index)
        /\ last.value.leafIndex = last.index

\* Reached: the proof of index 3 of a four-leaf tree, with directions
\* [LEFT, LEFT].
BalancedProofShapeWitness ==
    /\ last.op = "generateProof" /\ last.error = NoError
    /\ getLeafCount = 4 /\ last.index = 3
    /\ Len(last.value.elements) = 2
    /\ last.value.elements[1].direction = LEFT
    /\ last.value.elements[2].direction = LEFT

\* findLeaf(data) returned the smallest index whose leaf equals data, or -1
\* when there is none.
FirstMatch ==
    last.op = "findLeaf" =>
        IF \E i \in DOMAIN leaves : leaves[i] = last.data
        THEN /\ last.value >= 0 /\ last.value < getLeafCount
             /\ getLeaf(last.value) = last.data
             /\ \A j \in 0..(last.value - 1) : getLeaf(j) # last.data
        ELSE last.value = -1

\* C14 as stated: findLeaf returns the smallest matching index or -1, and
\* after updateLeaf(i, d) findLeaf of the replaced data does not return i
\* and findLeaf(d) returns an index <= i.
FindLeafReflectsUpdates ==
    /\ FirstMatch
    /\ (last.op = "updateLeaf" /\ last.error = NoError) =>
          /\ findLeaf(leaves, last.oldData) # last.index
          /\ findLeaf(leaves, last.newData) >= 0
          /\ findLeaf(leaves, last.newData) <= last.index

\* C14 amended: findLeaf returns the smallest matching index or -1; after
\* updateLeaf(i, d) findLeaf(d) returns an index <= i, and findLeaf of the
\* replaced data does not return i when d differs from the replaced data.
FindLeafReflectsChanges ==
    /\ FirstMatch
    /\ (last.op = "updateLeaf" /\ last.error = NoError) =>
          /\ last.newData # last.oldData => findLeaf(leaves, last.oldData) # last.index
          /\ findLeaf(leaves, last.newData) >= 0
          /\ findLeaf(leaves, last.newData) <= last.index

\* Reached: updateLeaf put into the last of three leaves data that an
\* earlier leaf holds too, in place of data no other leaf holds.
FindLeafReflectsChangesWitness ==
    /\ last.op = "updateLeaf" /\ last.error = NoError
    /\ last.newData # last.oldData
    /\ getLeafCount = 3 /\ last.index = 2
    /\ findLeaf(leaves, last.newData) = 0
    /\ findLeaf(leaves, last.oldData) = -1

\* C15: getLeafHash(i) is leafStrategy.hash(getLeaf(i)) and is entry i of
\* level 0, for every valid i in every reachable state.
LeafHashesAgree ==
    /\ Len(leafHashes) = getLeafCount
    /\ \A i \in 0..(getLeafCount - 1) :
          /\ heap[leafHashes[i + 1]] = hash(leafHashStrategy, getLeaf(i))
          /\ heap[levels[1][i + 1]] = heap[leafHashes[i + 1]]
    /\ (last.op = "getLeafHash" /\ last.error = NoError) =>
          /\ last.value = hash(leafHashStrategy, getLeaf(last.index))
          /\ last.value = heap[levels[1][last.index + 1]]

\* Reached: getLeafHash of the last leaf of a three-leaf tree after an
\* update.
LeafHashesAgreeWitness ==
    /\ last.op = "getLeafHash" /\ last.error = NoError
    /\ updated
    /\ getLeafCount = 3 /\ last.index = 2
    /\ last.value = hash(leafHashStrategy, getLeaf(2))

\* C16: verifySimple and legacyVerify fail with an error when the
\* hexadecimal string of a sibling digest or of the expected root is
\* malformed.
MalformedHexFails ==
    (last.op \in { "verifySimple", "legacyVerify" } /\ ~last.wellFormed) =>
        last.error # NoError

PoliciesDiffer ==
    (legacy.built /\ getLeafCount % 2 = 1) => legacy.root # Root

\* C18 amended: they have different roots for every odd number of leaves
\* from 3 on; for one leaf both roots are the hash of the leaf.
PoliciesDifferFromThree ==
    /\ (legacy.built /\ getLeafCount % 2 = 1 /\ getLeafCount >= 3) => legacy.root # Root
    /\ (legacy.built /\ getLeafCount = 1) => legacy.root = Root

\* Reached: both trees over three leaves with distinct leaf and branch tags.
PoliciesDifferWitness ==
    /\ legacy.built /\ getLeafCount = 3
    /\ Len(legacy.leafHashes) = 3
    /\ leafHashStrategy # branchHashStrategy
    /\ legacy.root # Root

\* C19: in the tree of merkleTree.ts every stored level below the root has
\* an even number of nodes, an odd level being stored with its last node
\* twice; getProof(i) of a valid i has one element with a sibling digest for
\* every level below the root; for no leaves the root is the empty buffer
\* with hex '', and getProof of an index out of range is empty; no call
\* raises an error.
LegacyPadding ==
    legacy.built =>
        /\ \A l \in 1..(Len(legacy.levels) - 1) : Len(legacy.levels[l]) % 2 = 0
        /\ (Len(legacy.leafHashes) > 1 /\ Len(legacy.leafHashes) % 2 = 1) =>
              legacy.levels[1] =
                  Append(legacy.leafHashes, legacy.leafHashes[Len(legacy.leafHashes)])
        /\ \A l \in 1..(Len(legacy.levels) - 1) :
              LET parents == legacyParents(branchHashStrategy.tag, legacy.levels[l])
              IN  legacy.levels[l + 1] =
                      IF l + 1 = Len(legacy.levels) THEN parents ELSE legacyPad(parents)
        /\ Len(legacy.leafHashes) = 0 =>
              /\ legacy.root = <<>>
              /\ last.op = "getHexRoot" => last.value = <<>>
        /\ Len(legacy.leafHashes) >= 1 =>
              legacy.levels[Len(legacy.levels)] = << legacy.root >>
        /\ last.op \in { "getProof", "getHexRoot" } => last.error = NoError
        /\ last.op = "getProof" =>
              IF last.index >= 0 /\ last.index < Len(legacy.leafHashes)
              THEN /\ Len(last.value) = Len(legacy.levels) - 1
                   /\ \A e \in DOMAIN last.value :
                         /\ last.value[e].siblingHash # undefined
                         /\ \E p \in DOMAIN legacy.levels[e] :
                               last.value[e].siblingHash = legacy.levels[e][p]
              ELSE last.value = <<>>

\* Reached: the proof of the last of three leaves, whose first sibling is
\* the duplicate of the leaf's own hash.
LegacyPaddingWitness ==
    /\ legacy.built /\ Len(legacy.leafHashes) = 3
    /\ last.op = "getProof" /\ last.index = 2
    /\ Len(last.value) = 2
    /\ last.value[1].siblingHash = legacy.leafHashes[3]

PairedLevels(i) ==
    { l \in 0..(Len(levels) - 2) :
        LET pos == i \div (2 ^ l)
        IN  (IF pos % 2 = 0 THEN pos + 1 ELSE pos - 1) < Len(levels[l + 1]) }

\* C21: generateProof(i) has, in leaf-to-root order, exactly one element for
\* every level below the root at which the path node floor(i / 2^l) has a
\* sibling inside the level: the entry at that position XOR 1, with direction
\* RIGHT for an even position and LEFT for an odd one; nothing for a level
\* where the path node is the carried one, so at most (levels - 1) elements.
ProofElements ==
    (last.op = "generateProof" /\ last.error = NoError) =>
        LET i == last.index
            elements == last.value.elements
        IN  /\ Len(elements) = Cardinality(PairedLevels(i))
            /\ Len(elements) <= Len(levels) - 1
            /\ \A l \in PairedLevels(i) :
                  LET pos == i \div (2 ^ l)
                      e == Cardinality({ m \in PairedLevels(i) : m < l }) + 1
                  IN  /\ elements[e].siblingHash =
                            heap[levels[l + 1][(IF pos % 2 = 0 THEN pos + 1 ELSE pos - 1) + 1]]
                      /\ elements[e].direction = (IF pos % 2 = 0 THEN RIGHT ELSE LEFT)

\* Reached: the proof of the carried third leaf of a three-leaf tree: nothing
\* for level 0, the hash of the first pair on the left for level 1.
ProofElementsWitness ==
    /\ last.op = "generateProof" /\ last.error = NoError
    /\ getLeafCount = 3 /\ last.index = 2
    /\ Len(levels) = 3
    /\ PairedLevels(2) = { 1 }
    /\ last.value.elements = << [siblingHash |-> heap[levels[2][1]], direction |-> LEFT] >>

\* The calls that only read the tree.
ReadOps == { "getRoot", "getLeaf", "getLeafHash", "findLeaf", "exportTree", "generateProof" }

\* The slots on the path from leaf i to the root: position floor(i / 2^l) of
\* every level l.
PathSlots(i) == { << l, i \div (2 ^ l) >> : l \in 0..(Len(levels) - 1) }

\* C22: updateLeaf(i, d) writes only leaf data i, leaf hash i and, at each
\* level l, the entry at position floor(i / 2^l), and overwrites no Buffer;
\* every other leaf, leaf hash and level entry holds what it held before;
\* getRoot, getLeaf, getLeafHash, findLeaf, exportTree and generateProof
\* change nothing.
FrameOfUpdate ==
    [][/\ (last'.op = "updateLeaf" /\ last'.error = NoError) =>
             LET i == last'.index
             IN  /\ last'.written.leaves \subseteq { i }
                 /\ last'.written.leafHashes \subseteq { i }
                 /\ last'.written.levels \subseteq PathSlots(i)
                 /\ last'.written.buffers = {}
                 /\ \A j \in 0..(Len(leaves) - 1) :
                       j # i => /\ leaves'[j + 1] = leaves[j + 1]
                                /\ heap'[leafHashes'[j + 1]] = heap[leafHashes[j + 1]]
                 /\ \A l \in 0..(Len(levels) - 1) :
                       \A q \in 0..(Len(levels[l + 1]) - 1) :
                           << l, q >> \notin PathSlots(i) =>
                               heap'[levels'[l + 1][q + 1]] = heap[levels[l + 1][q + 1]]
       /\ last'.op \in ReadOps => UNCHANGED << leaves, leafHashes, levels, heap >>]_vars

\* Reached: updateLeaf(0, d) on a three-leaf tree wrote position 0 of each of
\* the three levels, and the data and the hash of leaf 0.
FrameOfUpdateWitness ==
    /\ last.op = "updateLeaf" /\ last.error = NoError
    /\ last.newData # last.oldData
    /\ getLeafCount = 3 /\ last.index = 0
    /\ last.written.levels = { << 0, 0 >>, << 1, 0 >>, << 2, 0 >> }
    /\ last.written.leafHashes = { 0 }
    /\ last.written.leaves = { 0 }

\* C23: for a proof p issued by the tree, verifySimple(p.leafData,
\* toApiFormat(p.elements), hex(p.rootHash)) and legacyVerify with the same
\* path in 'left'/'right' form return what verify(p) returns; toApiFormat
\* writes 0 for LEFT and 1 for RIGHT and keeps the order and the digests of
\* the elements.
EntryPointsAgree ==
    last.op = "verifyAll" =>
        LET p == Deref(heap, generateProof(leaves, levels, last.index))
        IN  /\ last.simple = last.verify
            /\ last.legacy = last.verify
            /\ last.matching => last.verify = TRUE
            /\ Len(last.api) = Len(p.elements)
            /\ \A e \in DOMAIN p.elements :
                  /\ last.api[e][2] = (IF p.elements[e].direction = LEFT THEN 0 ELSE 1)
                  /\ fromHex(last.api[e][1]) = p.elements[e].siblingHash

\* Reached: the three entry points accepted the proof of the second of four
\* leaves, whose path is [LEFT, RIGHT].
EntryPointsAgreeWitness ==
    /\ last.op = "verifyAll" /\ last.matching
    /\ getLeafCount = 4 /\ last.index = 1
    /\ Len(last.api) = 2
    /\ last.api[1][2] = 0 /\ last.api[2][2] = 1
    /\ last.verify = TRUE /\ last.simple = TRUE /\ last.legacy = TRUE

\* C24: a generateProof run between the slot writes of an updateLeaf call can
\* return a proof that verify rejects; a proof issued while no updateLeaf
\* call is under way is accepted, and whenever no call is under way the
\* levels are those of a fresh tree built from the current leaves.
SerializedProofsVerify ==
    /\ (last.op = "generateProof" /\ last.during = "idle") => last.result = TRUE
    /\ running.pc = "idle" =>
           /\ exportTree(heap, levels) = exportTree(Rebuilt.heap, Rebuilt.levels)
           /\ \A i \in DOMAIN leafHashes : leafHashes[i] = levels[1][i]

\* Reached: while updateLeaf(0, d) on a two-leaf tree had written level 0 and
\* not yet the root, generateProof(1) returned the new digest of leaf 0 as
\* sibling and the old root, and verify rejected it; after the call returned,
\* a proof was issued and accepted.
SerializedProofsVerifyWitness ==
    /\ last.op = "generateProof" /\ last.during = "idle" /\ last.result = TRUE
    /\ updated
    /\ getLeafCount = 2
    /\ held # <<>>
    /\ held[1].during = "loop" /\ held[1].level = 0
    /\ held[1].proof.leafIndex = 1
    /\ held[1].issued.elements[1].siblingHash = hash(leafHashStrategy, leaves[1])
    /\ held[1].issued.rootHash # Root
    /\ ~ verify(TreePair, held[1].issued)

\* C25: two proofs that differ only in leafIndex get the same verify()
\* result: a proof issued by the tree is still accepted with another index
\* recorded in it.
IndexNotBound ==
    last.op = "verifyReindexed" =>
        /\ last.other # last.index
        /\ last.value = last.original

\* Reached: the proof of the first of two leaves, whose sibling is on the
\* right, was accepted with index 1 recorded in it.
IndexNotBoundWitness ==
    /\ last.op = "verifyReindexed"
    /\ getLeafCount = 2 /\ last.index = 0 /\ last.other = 1
    /\ last.original = TRUE /\ last.value = TRUE

\* C26: for every non-empty leaf list and valid i, the proof of the legacy
\* tree's getProof(i), converted with fromLibraryFormat and wrapped with the
\* leaf data and the legacy tree's root, is accepted by a verifier with
\* tagged strategies of the same tags, also when the path passes through
\* duplicated nodes.
LegacyProofsVerify ==
    last.op = "roundTrip" =>
        /\ last.value = TRUE
        /\ \A e \in DOMAIN getProof(legacy, last.index) :
              fromLibraryFormat(getProof(legacy, last.index))[e].direction =
                  (IF getProof(legacy, last.index)[e].side = 0 THEN LEFT ELSE RIGHT)

\* Reached: the converted proof of the last of three leaves, whose first
\* sibling is the duplicate of the leaf's own hash, was accepted.
LegacyProofsVerifyWitness ==
    /\ last.op = "roundTrip" /\ last.index = 2
    /\ Len(legacy.leafHashes) = 3
    /\ getProof(legacy, 2)[1].siblingHash = legacy.leafHashes[3]
    /\ last.value = TRUE

====
